---------------------------- MODULE Spec2Model ----------------------------
(***************************************************************************)
(* Two-dimensional Ising ferromagnet, Metropolis Monte Carlo, as           *)
(* implemented by the settings-object variant of Ising (src/ising.js,      *)
(* lines 770-1080).  One Ising object is modelled: its fields are the      *)
(* variables, the constructor gives Init, and simulationStep is followed    *)
(* statement group by statement group (pc).                                 *)
(*                                                                          *)
(* Numbers.  temperature, magneticField, loopTargetValue (in the curve      *)
(* modes) and loopIncrement are held as integers in units of 1/Scale.       *)
(* magnetization is held in units of 1/(width*height), orderParameter in    *)
(* units of 1/(4*width*height), the block accumulators in the same units     *)
(* divided by averagingFrames; arithmetic on them is exact.                  *)
(*                                                                          *)
(* Random draws.  floor(width*Math.random()) is any column 0..width-1.      *)
(* The acceptance draw r in [0,1) is represented by L = -ln(r), so that     *)
(* r < exp(deltaE/temperature) is decided exactly (see ExpAbove).           *)
(***************************************************************************)
EXTENDS Integers, Sequences, FiniteSets, TLC

VARIABLES
    width, height, mcStepsPerFrame, averagingFrames,   \* settings, never reassigned
    loopMode, loopTargetValue,                         \* settings, never reassigned
    temperature, magneticField, loopIncrement,         \* control parameters
    loopBackward, loopStartValue,                      \* scheduler state
    frameCounter,                                      \* step index, starts at 1
    dataTable,                                         \* rows of the p5.Table
    magnetization, orderParameter,                     \* readouts of the last update
    averageMagnetization, averageOrderParameter,       \* block accumulators
    averageOrderParamter,                              \* the property line 922 writes
    spin, exchangeField,                               \* lattice and its cache
    pc, mcSteps, trial,                                \* position inside simulationStep
    looping, terminateCalls,                           \* p5 draw loop, calls of terminate
    blockLog, rowLog                                   \* history: per-step observations

vars == << width, height, mcStepsPerFrame, averagingFrames, loopMode,
           loopTargetValue, temperature, magneticField, loopIncrement,
           loopBackward, loopStartValue, frameCounter, dataTable,
           magnetization, orderParameter, averageMagnetization,
           averageOrderParameter, averageOrderParamter, spin, exchangeField,
           pc, mcSteps, trial, looping, terminateCalls, blockLog, rowLog >>

---------------------------------------------------------------------------
(* Bounds of the model *)

MaxCells == 6
MaxTrials == 2
MaxAveraging == 3
MaxRows == 7

(* Fixed-point unit of temperature and field: values are multiples of 1/Scale *)
Scale == 10

(* The tolerance 1E-6 of increment and exitCondition is 1/EpsilonInverse *)
EpsilonInverse == 1000000

(* Digits after the point in toExponential(6) *)
FractionDigits == 6

---------------------------------------------------------------------------
(* Arithmetic helpers *)

Abs(x) == IF x < 0 THEN -x ELSE x

RECURSIVE Pow10(_)
Pow10(k) == IF k <= 0 THEN 1 ELSE 10 * Pow10(k - 1)

RECURSIVE SumSeq(_)
SumSeq(s) == IF s = << >> THEN 0 ELSE Head(s) + SumSeq(Tail(s))

---------------------------------------------------------------------------
(* Lattice topology *)

Cells(w, h) == (0 .. w - 1) \X (0 .. h - 1)

right(i) == (i + 1) % width
left(i)  == (i - 1 + width) % width
above(j) == (j + 1) % height
below(j) == (j - 1 + height) % height

(* sumOverNextNeighbors of initialize *)
sumOverNextNeighbors(s, i, j) ==
    s[<<right(i), j>>] + s[<<left(i), j>>] + s[<<i, above(j)>>] + s[<<i, below(j)>>]

---------------------------------------------------------------------------
(* Number.prototype.toExponential(6) of the rational num/den (den > 0):    *)
(* sign, seven significant digits (mant, an integer below 10^7) and the    *)
(* decimal exponent, so that the string denotes mant * 10^(exp - 6).       *)

RECURSIVE Exponent(_, _)
Exponent(n, d) ==
    IF n >= 10 * d THEN Exponent(n, 10 * d) + 1
    ELSE IF n < d THEN Exponent(10 * n, d) - 1
    ELSE 0

toExponential(num, den) ==
    IF num = 0 THEN [neg |-> FALSE, mant |-> 0, exp |-> 0]
    ELSE LET n == Abs(num)
             e == Exponent(n, den)
             a == IF e <= FractionDigits THEN n * Pow10(FractionDigits - e) ELSE n
             d == IF e <= FractionDigits THEN den ELSE den * Pow10(e - FractionDigits)
             q == a \div d
             m == IF 2 * (a % d) >= d THEN q + 1 ELSE q
         IN  IF m = Pow10(FractionDigits + 1)
             THEN [neg |-> num < 0, mant |-> Pow10(FractionDigits), exp |-> e + 1]
             ELSE [neg |-> num < 0, mant |-> m, exp |-> e]

---------------------------------------------------------------------------
(* Settings the model is run with.  Each family is a set of settings       *)
(* objects as handed to  new Ising(settings).                              *)

Modes == {"TSWEEP", "TLOOP", "HSWEEP", "HLOOP"}

(* -ln(r) of the acceptance draws r the model tries: r = exp(-1), exp(-4)  *)
Draws == {1, 4}

(* Hot lattices of every shape with at most MaxCells cells, one frame *)
LatticeSettings ==
    { s \in [ width : 1 .. MaxCells, height : 1 .. MaxCells,
              mcStepsPerFrame : {MaxTrials}, averagingFrames : {1},
              temperature : {4 * Scale}, magneticField : {0, Scale \div 2},
              randomizeLattice : BOOLEAN, loopMode : {"NONE"},
              loopTargetValue : {1}, loopIncrement : {0} ] :
        s.width * s.height <= MaxCells }

(* Small hot lattices, blocks of 1 .. MaxAveraging steps, no curve *)
AveragingSettings ==
    [ width : {1, 2}, height : {1},
      mcStepsPerFrame : {1}, averagingFrames : 1 .. MaxAveraging,
      temperature : {4 * Scale}, magneticField : {0},
      randomizeLattice : {TRUE}, loopMode : {"NONE"},
      loopTargetValue : {4}, loopIncrement : {0} ]

(* Temperature and field curves on a cold one-cell lattice *)
CurveSettings ==
    [ width : {1}, height : {1},
      mcStepsPerFrame : {1}, averagingFrames : {1, 2},
      temperature : {2, 4}, magneticField : {2, 4},
      randomizeLattice : {FALSE}, loopMode : Modes,
      loopTargetValue : {2, 4}, loopIncrement : {-2, -1, 0, 1, 2} ]

(* The sweep scenario: 10x10, T 1.0 -> 0.5 by -0.1, blocks of 5 steps *)
SweepScenarioSettings ==
    { [ width |-> 10, height |-> 10,
        mcStepsPerFrame |-> 1, averagingFrames |-> 5,
        temperature |-> Scale, magneticField |-> 0,
        randomizeLattice |-> FALSE, loopMode |-> "TSWEEP",
        loopTargetValue |-> Scale \div 2, loopIncrement |-> -(Scale \div 10) ] }

(* The loop scenario: TLOOP, T 2.0 -> 3.0 -> 2.0 by 0.5, on short chains *)
LoopScenarioSettings ==
    [ width : {1, 2}, height : {1},
      mcStepsPerFrame : {1}, averagingFrames : {1, 2},
      temperature : {2 * Scale}, magneticField : {0},
      randomizeLattice : {FALSE}, loopMode : {"TLOOP"},
      loopTargetValue : {3 * Scale}, loopIncrement : {Scale \div 2} ]

(* Runs without a curve on a cold one-cell lattice: blocks of             *)
(* 1 .. MaxAveraging steps, stopped by the frame counter                   *)
FrameCountSettings ==
    [ width : {1}, height : {1},
      mcStepsPerFrame : {1}, averagingFrames : 1 .. MaxAveraging,
      temperature : {4}, magneticField : {0},
      randomizeLattice : {FALSE}, loopMode : {"NONE"},
      loopTargetValue : 0 .. 5, loopIncrement : {0, 1} ]

(* The curves and the runs without a curve together *)
SchedulerSettings == CurveSettings \cup FrameCountSettings

(* Settings nobody checks: temperatures below, at and above zero, with a   *)
(* temperature sweep or with a mode string that names no curve             *)
UncheckedSettings ==
    [ width : {1, 2}, height : {1},
      mcStepsPerFrame : {1}, averagingFrames : {1, 2},
      temperature : {-4, 0, 4}, magneticField : {0},
      randomizeLattice : {TRUE}, loopMode : {"NONE", "TSWEEP"},
      loopTargetValue : {2}, loopIncrement : {-2} ]

(* The frozen ferromagnet: all spins up, no field, temperature 0 and 0.1,  *)
(* every shape with at most MaxCells cells                                 *)
FrozenSettings ==
    { s \in [ width : 1 .. MaxCells, height : 1 .. MaxCells,
              mcStepsPerFrame : {MaxTrials}, averagingFrames : {1},
              temperature : {0, Scale \div 10}, magneticField : {0},
              randomizeLattice : {FALSE}, loopMode : {"NONE"},
              loopTargetValue : {2}, loopIncrement : {0} ] :
        s.width * s.height <= MaxCells }

(* Sweeps of the positional-argument variant on one cell: steps of 1.0 and *)
(* 2.0 in either direction from 2.0, final values 0.5, 1.0, ..., 4.5       *)
HalfStepSettings ==
    [ width : {1}, height : {1},
      mcStepsPerFrame : {1}, averagingFrames : {1, 2},
      temperature : {2 * Scale}, magneticField : {2 * Scale},
      randomizeLattice : {FALSE}, loopMode : {"TSWEEP", "HSWEEP"},
      loopTargetValue : {k * (Scale \div 2) : k \in 1 .. 9},
      loopIncrement : {-2 * Scale, -Scale, Scale, 2 * Scale} ]

(* loopMode: null of the settings object *)
Null == "null"

(* The averaging settings with the loop mode left out (null) or given as a  *)
(* string that names no curve                                               *)
OptionalModeSettings ==
    { [s EXCEPT !.loopMode = m] : s \in AveragingSettings, m \in {Null, "NONE"} }

---------------------------------------------------------------------------
(* Constructor and initialize *)

NoTrial == [i |-> -1, j |-> -1, L |-> 0, flipped |-> FALSE]

(* mutant: Math.floor(2*Math.random()) is taken as the spin *)
InitialLatticesBits(s) ==
    IF s.randomizeLattice
    THEN [Cells(s.width, s.height) -> {0, 1}]
    ELSE {[c \in Cells(s.width, s.height) |-> 1]}

(* initialize, first loop: +1 everywhere, or -1/+1 per cell when randomized *)
InitialLattices(s) ==
    IF s.randomizeLattice
    THEN [Cells(s.width, s.height) -> {-1, 1}]
    ELSE {[c \in Cells(s.width, s.height) |-> 1]}

(* initialize, second loop *)
InitialExchangeField(sp) ==
    [c \in DOMAIN sp |-> sumOverNextNeighbors(sp, c[1], c[2])]

(* loopStartValue: loopMode.charAt(0) == 'T' holds for TSWEEP and TLOOP    *)
(* among the mode strings of the settings families                          *)
Construct(s) ==
    /\ width = s.width
    /\ height = s.height
    /\ mcStepsPerFrame = s.mcStepsPerFrame
    /\ averagingFrames = s.averagingFrames
    /\ temperature = s.temperature
    /\ magneticField = s.magneticField
    /\ loopMode = s.loopMode
    /\ loopTargetValue = s.loopTargetValue
    /\ loopIncrement = s.loopIncrement
    /\ frameCounter = 1
    /\ dataTable = << >>
    /\ loopBackward = FALSE
    /\ loopStartValue =
          IF s.loopMode \in {"TSWEEP", "TLOOP"} THEN s.temperature ELSE s.magneticField
    /\ magnetization = 0
    /\ orderParameter = 0
    /\ averageMagnetization = 0
    /\ averageOrderParameter = 0
    /\ averageOrderParamter = "undefined"
    /\ spin \in InitialLattices(s)
    /\ exchangeField = InitialExchangeField(spin)
    /\ pc = "idle"
    /\ mcSteps = 0
    /\ trial = NoTrial
    /\ looping = TRUE
    /\ terminateCalls = 0
    /\ blockLog = << >>
    /\ rowLog = << >>

(* The constructor with loopMode null: this.loopMode.charAt(0) throws a    *)
(* TypeError, the statements after it are not run and  new Ising(settings) *)
(* returns no object, so that no simulationStep can be called on it        *)
ConstructThrows(s) ==
    /\ width = s.width
    /\ height = s.height
    /\ mcStepsPerFrame = s.mcStepsPerFrame
    /\ averagingFrames = s.averagingFrames
    /\ temperature = s.temperature
    /\ magneticField = s.magneticField
    /\ loopMode = s.loopMode
    /\ loopTargetValue = s.loopTargetValue
    /\ loopIncrement = s.loopIncrement
    /\ frameCounter = 1
    /\ dataTable = << >>
    /\ loopBackward = FALSE
    /\ loopStartValue = "undefined"
    /\ magnetization = "undefined"
    /\ orderParameter = "undefined"
    /\ averageMagnetization = "undefined"
    /\ averageOrderParameter = "undefined"
    /\ averageOrderParamter = "undefined"
    /\ spin = "undefined"
    /\ exchangeField = "undefined"
    /\ pc = "TypeError"
    /\ mcSteps = 0
    /\ trial = NoTrial
    /\ looping = TRUE
    /\ terminateCalls = 0
    /\ blockLog = << >>
    /\ rowLog = << >>

(* new Ising(s) *)
New(s) == IF s.loopMode = Null THEN ConstructThrows(s) ELSE Construct(s)

Init == \E s \in LatticeSettings : Construct(s)

InitAveraging == \E s \in AveragingSettings : Construct(s)

InitCurve == \E s \in CurveSettings : Construct(s)

InitSweepScenario == \E s \in SweepScenarioSettings : Construct(s)

InitLoopScenario == \E s \in LoopScenarioSettings : Construct(s)

InitFrameCount == \E s \in FrameCountSettings : Construct(s)

InitScheduler == \E s \in SchedulerSettings : Construct(s)

InitUnchecked == \E s \in UncheckedSettings : New(s)

InitFrozen == \E s \in FrozenSettings : Construct(s)

InitHalfStep == \E s \in HalfStepSettings : Construct(s)

InitOptionalMode == \E s \in OptionalModeSettings : New(s)

---------------------------------------------------------------------------
(* metropolis: one pass of the for loop is one MetropolisTrial *)

(* mutant: the external field is left out of the energy change *)
deltaENoField(i, j) == -2 * spin[<<i, j>>] * (exchangeField[<<i, j>>] * Scale)

(* deltaE = - 2*spin[i][j]*(exchangeField[i][j] + magneticField), in 1/Scale *)
deltaE(i, j) ==
    -2 * spin[<<i, j>>] * (exchangeField[<<i, j>>] * Scale + magneticField)

(* Math.random() < Math.exp(dE/T) for the draw r = exp(-L), L > 0.         *)
(* T > 0: -L < dE/T.  T = 0: dE/0 is +Infinity, -Infinity or NaN, and the  *)
(* comparison is true only for +Infinity.  T < 0: -L < dE/T, T negative.   *)
ExpAbove(L, dE, T) ==
    IF T > 0 THEN L * T > -dE
    ELSE IF T = 0 THEN dE > 0
    ELSE L * T < -dE

(* mutant: the comparison of the draw is turned around *)
AcceptedInverted(dE, L) == dE >= 0 \/ ~ExpAbove(L, dE, temperature)

(* mutant: every trial flips *)
AcceptedAlways(dE, L) == dE >= 0 \/ L > 0

(* the condition of the if statement of line 875 *)
Accepted(dE, L) == dE >= 0 \/ ExpAbove(L, dE, temperature)

(* mutant: the neighbours get the spin once, not twice *)
UpdateExchangeFieldByOne(ef, i, j, s) ==
    LET e1 == [ef EXCEPT ![<<right(i), j>>] = @ + s]
        e2 == [e1 EXCEPT ![<<left(i), j>>]  = @ + s]
        e3 == [e2 EXCEPT ![<<i, above(j)>>] = @ + s]
    IN  [e3 EXCEPT ![<<i, below(j)>>] = @ + s]

(* mutant: the cell of the trial is updated along with its neighbours *)
UpdateExchangeFieldOwnCell(ef, i, j, s) ==
    LET e1 == [ef EXCEPT ![<<right(i), j>>] = @ + 2 * s]
        e2 == [e1 EXCEPT ![<<left(i), j>>]  = @ + 2 * s]
        e3 == [e2 EXCEPT ![<<i, above(j)>>] = @ + 2 * s]
        e4 == [e3 EXCEPT ![<<i, below(j)>>] = @ + 2 * s]
    IN  [e4 EXCEPT ![<<i, j>>] = @ + 2 * s]

(* mutant: the update of the cell below is left out *)
UpdateExchangeFieldNoBelow(ef, i, j, s) ==
    LET e1 == [ef EXCEPT ![<<right(i), j>>] = @ + 2 * s]
        e2 == [e1 EXCEPT ![<<left(i), j>>]  = @ + 2 * s]
    IN  [e2 EXCEPT ![<<i, above(j)>>] = @ + 2 * s]

(* the four += 2*spin[i][j] statements, in order, s the spin after the flip *)
UpdateExchangeField(ef, i, j, s) ==
    LET e1 == [ef EXCEPT ![<<right(i), j>>] = @ + 2 * s]
        e2 == [e1 EXCEPT ![<<left(i), j>>]  = @ + 2 * s]
        e3 == [e2 EXCEPT ![<<i, above(j)>>] = @ + 2 * s]
    IN  [e3 EXCEPT ![<<i, below(j)>>] = @ + 2 * s]

MetropolisTrial ==
    /\ pc = "metropolis"
    /\ mcSteps < mcStepsPerFrame
    /\ \E i \in 0 .. width - 1, j \in 0 .. height - 1, L \in Draws :
          /\ trial' = [i |-> i, j |-> j, L |-> L,
                        flipped |-> Accepted(deltaE(i, j), L)]
          /\ IF Accepted(deltaE(i, j), L)
             THEN /\ spin' = [spin EXCEPT ![<<i, j>>] = -@]
                  /\ exchangeField' =
                        UpdateExchangeField(exchangeField, i, j, -spin[<<i, j>>])
             ELSE UNCHANGED << spin, exchangeField >>
    /\ mcSteps' = mcSteps + 1
    /\ UNCHANGED << width, height, mcStepsPerFrame, averagingFrames, loopMode,
                    loopTargetValue, temperature, magneticField, loopIncrement,
                    loopBackward, loopStartValue, frameCounter, dataTable,
                    magnetization, orderParameter, averageMagnetization,
                    averageOrderParameter, averageOrderParamter, pc, looping,
                    terminateCalls, blockLog, rowLog >>

---------------------------------------------------------------------------
(* update and updateDataTable *)

(* the nested for loops of update: f[i][j] summed over j < h, then i < w *)
RECURSIVE ColumnSum(_, _, _)
ColumnSum(f, i, h) ==
    IF h = 0 THEN 0 ELSE ColumnSum(f, i, h - 1) + f[<<i, h - 1>>]

RECURSIVE LatticeSum(_, _)
LatticeSum(f, w) ==
    IF w = 0 THEN 0 ELSE LatticeSum(f, w - 1) + ColumnSum(f, w - 1, height)

(* sum of spin[i][j]: the magnetization in units of 1/(width*height) *)
SpinSum(sp) == LatticeSum(sp, width)

(* mutant: the exchange field is summed without the spin *)
BondSumUnsigned(sp, ef) == LatticeSum([c \in DOMAIN sp |-> ef[c] * ef[c]], width)

(* sum of exchangeField[i][j]*spin[i][j]: the order parameter in units of  *)
(* 1/(4*width*height)                                                      *)
BondSum(sp, ef) == LatticeSum([c \in DOMAIN sp |-> ef[c] * sp[c]], width)

(* mutant: = instead of +=, the accumulator keeps the last step only *)
AccumulateLast(average, value) == value

(* averageMagnetization += magnetization/averagingFrames, in units of      *)
(* 1/(width*height*averagingFrames)                                        *)
Accumulate(average, value) == average + value

(* mutant: the row is written with the parameters of the next block *)
NewRowNextBlock(avgMag, avgOrder) ==
    [ temperature    |-> toExponential(
                            IF loopMode \in {"TSWEEP", "TLOOP"}
                            THEN temperature + loopIncrement ELSE temperature, Scale),
      magneticField  |-> toExponential(
                            IF loopMode \in {"HSWEEP", "HLOOP"}
                            THEN magneticField + loopIncrement ELSE magneticField, Scale),
      magnetization  |-> toExponential(avgMag, width * height * averagingFrames),
      orderParameter |-> toExponential(avgOrder, 4 * width * height * averagingFrames) ]

(* the row updateDataTable adds, from the accumulators as they are then *)
NewRow(avgMag, avgOrder) ==
    [ temperature    |-> toExponential(temperature, Scale),
      magneticField  |-> toExponential(magneticField, Scale),
      magnetization  |-> toExponential(avgMag, width * height * averagingFrames),
      orderParameter |-> toExponential(avgOrder, 4 * width * height * averagingFrames) ]

(* mutant: the block is taken to end one step late *)
AveragingCompletedLate == frameCounter % averagingFrames = 1 % averagingFrames

(* frameCounter % averagingFrames == 0 *)
AveragingCompleted == frameCounter % averagingFrames = 0

Update ==
    /\ pc = "metropolis"
    /\ ~(mcSteps < mcStepsPerFrame)
    /\ magnetization' = SpinSum(spin)
    /\ orderParameter' = BondSum(spin, exchangeField)
    /\ averageOrderParamter' = "NaN"
    /\ IF AveragingCompleted
       THEN /\ dataTable' = Append(dataTable,
                   NewRow(Accumulate(averageMagnetization, magnetization'),
                          averageOrderParameter))
            /\ averageMagnetization' = 0
            /\ averageOrderParameter' = 0
            /\ rowLog' = Append(blockLog, [m |-> SpinSum(spin),
                                           eta |-> BondSum(spin, exchangeField),
                                           temperature |-> temperature,
                                           magneticField |-> magneticField])
            /\ blockLog' = << >>
       ELSE /\ averageMagnetization' = Accumulate(averageMagnetization, magnetization')
            /\ blockLog' = Append(blockLog, [m |-> SpinSum(spin),
                                             eta |-> BondSum(spin, exchangeField),
                                             temperature |-> temperature,
                                             magneticField |-> magneticField])
            /\ UNCHANGED << dataTable, averageOrderParameter, rowLog >>
    /\ pc' = "show"
    /\ trial' = NoTrial
    /\ UNCHANGED << width, height, mcStepsPerFrame, averagingFrames, loopMode,
                    loopTargetValue, temperature, magneticField, loopIncrement,
                    loopBackward, loopStartValue, frameCounter, spin,
                    exchangeField, mcSteps, looping, terminateCalls >>

(* show: draws the lattice and the four scales; no field of the engine     *)
(* other than the drawing buffer changes                                   *)
Show ==
    /\ pc = "show"
    /\ pc' = "iterate"
    /\ UNCHANGED << width, height, mcStepsPerFrame, averagingFrames, loopMode,
                    loopTargetValue, temperature, magneticField, loopIncrement,
                    loopBackward, loopStartValue, frameCounter, dataTable,
                    magnetization, orderParameter, averageMagnetization,
                    averageOrderParameter, averageOrderParamter, spin,
                    exchangeField, mcSteps, trial, looping, terminateCalls,
                    blockLog, rowLog >>

---------------------------------------------------------------------------
(* iterate, increment, exitCondition, terminate *)

(* mutant: a tolerance of one tenth, the bound included *)
NearTenth(a, b) == Abs(a - b) <= Scale \div 10

(* Math.abs(a - b) < 1E-6, a and b in units of 1/Scale *)
Near(a, b) == Abs(a - b) * EpsilonInverse < Scale

(* mutant: the sweeps compare with the start value instead of the target *)
exitConditionStart ==
    CASE loopMode = "TSWEEP" -> Near(temperature, loopStartValue)
      [] loopMode = "HSWEEP" -> Near(magneticField, loopStartValue)
      [] loopMode = "TLOOP"  -> loopBackward /\ Near(temperature, loopStartValue)
      [] loopMode = "HLOOP"  -> loopBackward /\ Near(magneticField, loopStartValue)
      [] OTHER               -> frameCounter >= loopTargetValue

(* mutant: the loops do not look at the direction *)
exitConditionNoDirection ==
    CASE loopMode = "TSWEEP" -> Near(temperature, loopTargetValue)
      [] loopMode = "HSWEEP" -> Near(magneticField, loopTargetValue)
      [] loopMode = "TLOOP"  -> Near(temperature, loopStartValue)
      [] loopMode = "HLOOP"  -> Near(magneticField, loopStartValue)
      [] OTHER               -> frameCounter >= loopTargetValue

(* mutant: the sweeps stop when the next value would be the target *)
exitConditionAhead ==
    CASE loopMode = "TSWEEP" -> Near(temperature + loopIncrement, loopTargetValue)
      [] loopMode = "HSWEEP" -> Near(magneticField + loopIncrement, loopTargetValue)
      [] loopMode = "TLOOP"  -> loopBackward /\ Near(temperature, loopStartValue)
      [] loopMode = "HLOOP"  -> loopBackward /\ Near(magneticField, loopStartValue)
      [] OTHER               -> frameCounter >= loopTargetValue

(* mutant: a curve that cannot advance is stopped *)
exitConditionStalled ==
    CASE loopIncrement = 0   -> TRUE
      [] loopMode = "TSWEEP" -> Near(temperature, loopTargetValue)
      [] loopMode = "HSWEEP" -> Near(magneticField, loopTargetValue)
      [] loopMode = "TLOOP"  -> loopBackward /\ Near(temperature, loopStartValue)
      [] loopMode = "HLOOP"  -> loopBackward /\ Near(magneticField, loopStartValue)
      [] OTHER               -> frameCounter >= loopTargetValue

(* mutant: without a curve the frame counter has to pass the target *)
exitConditionPast ==
    CASE loopMode = "TSWEEP" -> Near(temperature, loopTargetValue)
      [] loopMode = "HSWEEP" -> Near(magneticField, loopTargetValue)
      [] loopMode = "TLOOP"  -> loopBackward /\ Near(temperature, loopStartValue)
      [] loopMode = "HLOOP"  -> loopBackward /\ Near(magneticField, loopStartValue)
      [] OTHER               -> frameCounter > loopTargetValue

exitCondition ==
    CASE loopMode = "TSWEEP" -> Near(temperature, loopTargetValue)
      [] loopMode = "HSWEEP" -> Near(magneticField, loopTargetValue)
      [] loopMode = "TLOOP"  -> loopBackward /\ Near(temperature, loopStartValue)
      [] loopMode = "HLOOP"  -> loopBackward /\ Near(magneticField, loopStartValue)
      [] OTHER               -> frameCounter >= loopTargetValue

(* mutant: the loops turn around at the start value *)
TurnsAroundAtStart(active) == ~loopBackward /\ Near(active, loopStartValue)

(* the if statement of case 'TLOOP' / case 'HLOOP' *)
TurnsAround(active) == ~loopBackward /\ Near(active, loopTargetValue)

(* mutant: a break after the turnaround, which then does not advance *)
incrementBreak ==
    CASE loopMode = "TLOOP" ->
            /\ loopBackward' = (loopBackward \/ TurnsAround(temperature))
            /\ loopIncrement' =
                  IF TurnsAround(temperature) THEN -loopIncrement ELSE loopIncrement
            /\ temperature' =
                  IF TurnsAround(temperature) THEN temperature
                  ELSE temperature + loopIncrement
            /\ UNCHANGED magneticField
      [] loopMode = "TSWEEP" ->
            /\ temperature' = temperature + loopIncrement
            /\ UNCHANGED << magneticField, loopBackward, loopIncrement >>
      [] loopMode = "HLOOP" ->
            /\ loopBackward' = (loopBackward \/ TurnsAround(magneticField))
            /\ loopIncrement' =
                  IF TurnsAround(magneticField) THEN -loopIncrement ELSE loopIncrement
            /\ magneticField' =
                  IF TurnsAround(magneticField) THEN magneticField
                  ELSE magneticField + loopIncrement
            /\ UNCHANGED temperature
      [] loopMode = "HSWEEP" ->
            /\ magneticField' = magneticField + loopIncrement
            /\ UNCHANGED << temperature, loopBackward, loopIncrement >>
      [] OTHER ->
            UNCHANGED << temperature, magneticField, loopBackward, loopIncrement >>

(* mutant: the turnaround negates the increment and leaves the flag *)
incrementNoFlag ==
    CASE loopMode = "TLOOP" ->
            /\ loopIncrement' =
                  IF TurnsAround(temperature) THEN -loopIncrement ELSE loopIncrement
            /\ temperature' = temperature + loopIncrement'
            /\ UNCHANGED << magneticField, loopBackward >>
      [] loopMode = "TSWEEP" ->
            /\ temperature' = temperature + loopIncrement
            /\ UNCHANGED << magneticField, loopBackward, loopIncrement >>
      [] loopMode = "HLOOP" ->
            /\ loopIncrement' =
                  IF TurnsAround(magneticField) THEN -loopIncrement ELSE loopIncrement
            /\ magneticField' = magneticField + loopIncrement'
            /\ UNCHANGED << temperature, loopBackward >>
      [] loopMode = "HSWEEP" ->
            /\ magneticField' = magneticField + loopIncrement
            /\ UNCHANGED << temperature, loopBackward, loopIncrement >>
      [] OTHER ->
            UNCHANGED << temperature, magneticField, loopBackward, loopIncrement >>

(* mutant: the default case advances the temperature *)
incrementDefault ==
    CASE loopMode = "TLOOP" ->
            /\ loopBackward' = (loopBackward \/ TurnsAround(temperature))
            /\ loopIncrement' =
                  IF TurnsAround(temperature) THEN -loopIncrement ELSE loopIncrement
            /\ temperature' = temperature + loopIncrement'
            /\ UNCHANGED magneticField
      [] loopMode = "TSWEEP" ->
            /\ temperature' = temperature + loopIncrement
            /\ UNCHANGED << magneticField, loopBackward, loopIncrement >>
      [] loopMode = "HLOOP" ->
            /\ loopBackward' = (loopBackward \/ TurnsAround(magneticField))
            /\ loopIncrement' =
                  IF TurnsAround(magneticField) THEN -loopIncrement ELSE loopIncrement
            /\ magneticField' = magneticField + loopIncrement'
            /\ UNCHANGED temperature
      [] loopMode = "HSWEEP" ->
            /\ magneticField' = magneticField + loopIncrement
            /\ UNCHANGED << temperature, loopBackward, loopIncrement >>
      [] OTHER ->
            /\ temperature' = temperature + loopIncrement
            /\ UNCHANGED << magneticField, loopBackward, loopIncrement >>

(* the switch of increment; a LOOP case falls through into its SWEEP case *)
increment ==
    CASE loopMode = "TLOOP" ->
            /\ loopBackward' = (loopBackward \/ TurnsAround(temperature))
            /\ loopIncrement' =
                  IF TurnsAround(temperature) THEN -loopIncrement ELSE loopIncrement
            /\ temperature' = temperature + loopIncrement'
            /\ UNCHANGED magneticField
      [] loopMode = "TSWEEP" ->
            /\ temperature' = temperature + loopIncrement
            /\ UNCHANGED << magneticField, loopBackward, loopIncrement >>
      [] loopMode = "HLOOP" ->
            /\ loopBackward' = (loopBackward \/ TurnsAround(magneticField))
            /\ loopIncrement' =
                  IF TurnsAround(magneticField) THEN -loopIncrement ELSE loopIncrement
            /\ magneticField' = magneticField + loopIncrement'
            /\ UNCHANGED temperature
      [] loopMode = "HSWEEP" ->
            /\ magneticField' = magneticField + loopIncrement
            /\ UNCHANGED << temperature, loopBackward, loopIncrement >>
      [] OTHER ->
            UNCHANGED << temperature, magneticField, loopBackward, loopIncrement >>

(* mutant: terminate without noLoop() *)
terminateNoStop ==
    /\ looping' = looping
    /\ terminateCalls' = terminateCalls + 1

(* terminate: saves the table and calls noLoop() *)
terminate ==
    /\ looping' = FALSE
    /\ terminateCalls' = terminateCalls + 1

(* mutant: the curve is advanced at every step, not only at block ends *)
IterateEveryStep ==
    /\ pc = "iterate"
    /\ IF AveragingCompleted /\ exitCondition
       THEN /\ terminate
            /\ UNCHANGED << temperature, magneticField, loopBackward,
                            loopIncrement >>
       ELSE /\ increment
            /\ UNCHANGED << looping, terminateCalls >>
    /\ frameCounter' = frameCounter + 1
    /\ pc' = "idle"
    /\ UNCHANGED << width, height, mcStepsPerFrame, averagingFrames, loopMode,
                    loopTargetValue, loopStartValue, dataTable, magnetization,
                    orderParameter, averageMagnetization, averageOrderParameter,
                    averageOrderParamter, spin, exchangeField, mcSteps, trial,
                    blockLog, rowLog >>

(* mutant: the call that terminates returns before this.frameCounter++ *)
IterateReturnOnExit ==
    /\ pc = "iterate"
    /\ IF AveragingCompleted
       THEN IF exitCondition
            THEN /\ terminate
                 /\ UNCHANGED << temperature, magneticField, loopBackward,
                                 loopIncrement, frameCounter >>
            ELSE /\ increment
                 /\ frameCounter' = frameCounter + 1
                 /\ UNCHANGED << looping, terminateCalls >>
       ELSE /\ frameCounter' = frameCounter + 1
            /\ UNCHANGED << temperature, magneticField, loopBackward,
                            loopIncrement, looping, terminateCalls >>
    /\ pc' = "idle"
    /\ UNCHANGED << width, height, mcStepsPerFrame, averagingFrames, loopMode,
                    loopTargetValue, loopStartValue, dataTable, magnetization,
                    orderParameter, averageMagnetization, averageOrderParameter,
                    averageOrderParamter, spin, exchangeField, mcSteps, trial,
                    blockLog, rowLog >>

(* iterate *)
Iterate ==
    /\ pc = "iterate"
    /\ IF AveragingCompleted
       THEN IF exitCondition
            THEN /\ terminate
                 /\ UNCHANGED << temperature, magneticField, loopBackward,
                                 loopIncrement >>
            ELSE /\ increment
                 /\ UNCHANGED << looping, terminateCalls >>
       ELSE UNCHANGED << temperature, magneticField, loopBackward, loopIncrement,
                         looping, terminateCalls >>
    /\ frameCounter' = frameCounter + 1
    /\ pc' = "idle"
    /\ UNCHANGED << width, height, mcStepsPerFrame, averagingFrames, loopMode,
                    loopTargetValue, loopStartValue, dataTable, magnetization,
                    orderParameter, averageMagnetization, averageOrderParameter,
                    averageOrderParamter, spin, exchangeField, mcSteps, trial,
                    blockLog, rowLog >>

(* draw() of the sketch calls simulationStep while the p5 loop runs; the   *)
(* model stops calling once MaxRows rows are in the table                  *)
SimulationStep ==
    /\ pc = "idle"
    /\ looping
    /\ Len(dataTable) < MaxRows
    /\ pc' = "metropolis"
    /\ mcSteps' = 0
    /\ UNCHANGED << width, height, mcStepsPerFrame, averagingFrames, loopMode,
                    loopTargetValue, temperature, magneticField, loopIncrement,
                    loopBackward, loopStartValue, frameCounter, dataTable,
                    magnetization, orderParameter, averageMagnetization,
                    averageOrderParameter, averageOrderParamter, spin,
                    exchangeField, trial, looping, terminateCalls, blockLog,
                    rowLog >>

(* simulationStep called by the host after noLoop() has stopped the draw   *)
(* loop; the function has no condition of its own and starts the step      *)
DirectCall ==
    /\ pc = "idle"
    /\ ~looping
    /\ Len(dataTable) < MaxRows
    /\ pc' = "metropolis"
    /\ mcSteps' = 0
    /\ UNCHANGED << width, height, mcStepsPerFrame, averagingFrames, loopMode,
                    loopTargetValue, temperature, magneticField, loopIncrement,
                    loopBackward, loopStartValue, frameCounter, dataTable,
                    magnetization, orderParameter, averageMagnetization,
                    averageOrderParameter, averageOrderParamter, spin,
                    exchangeField, trial, looping, terminateCalls, blockLog,
                    rowLog >>

Next == SimulationStep \/ MetropolisTrial \/ Update \/ Show \/ Iterate

(* the steps of a host that also calls simulationStep outside the draw loop *)
NextDirect == Next \/ DirectCall

---------------------------------------------------------------------------
(* The positional-argument variant, Ising(nx, ny, mcSteps, averagingFrames, *)
(* randomize, temp, hField, step, finalValue, loopMode, imageFile,          *)
(* dataFile).  Its fields are held in the variables of the same meaning:    *)
(* nx, ny as width, height; mcSteps as mcStepsPerFrame; temp, hField as     *)
(* temperature, magneticField; step as loopIncrement; finalValue as         *)
(* loopTargetValue; initialValue as loopStartValue; backward as             *)
(* loopBackward; iter as frameCounter; mag, order, averageMag, averageOrder *)
(* as magnetization, orderParameter, averageMagnetization,                  *)
(* averageOrderParameter.  Its constructor sets them as Construct does.     *)

(* mutant: the spin is flipped before the four -= statements, which then  *)
(* subtract the new spin                                                   *)
UpdateExchangeFieldPositionalFlipFirst(ef, i, j, s) ==
    LET e1 == [ef EXCEPT ![<<right(i), j>>] = @ + 2 * s]
        e2 == [e1 EXCEPT ![<<left(i), j>>]  = @ + 2 * s]
        e3 == [e2 EXCEPT ![<<i, above(j)>>] = @ + 2 * s]
    IN  [e3 EXCEPT ![<<i, below(j)>>] = @ + 2 * s]

(* the four -= 2*spin[i][j] statements, in order, s the spin before the flip *)
UpdateExchangeFieldPositional(ef, i, j, s) ==
    LET e1 == [ef EXCEPT ![<<right(i), j>>] = @ - 2 * s]
        e2 == [e1 EXCEPT ![<<left(i), j>>]  = @ - 2 * s]
        e3 == [e2 EXCEPT ![<<i, above(j)>>] = @ - 2 * s]
    IN  [e3 EXCEPT ![<<i, below(j)>>] = @ - 2 * s]

MetropolisTrialPositional ==
    /\ pc = "metropolis"
    /\ mcSteps < mcStepsPerFrame
    /\ \E i \in 0 .. width - 1, j \in 0 .. height - 1, L \in Draws :
          /\ trial' = [i |-> i, j |-> j, L |-> L,
                        flipped |-> Accepted(deltaE(i, j), L)]
          /\ IF Accepted(deltaE(i, j), L)
             THEN /\ exchangeField' =
                        UpdateExchangeFieldPositional(exchangeField, i, j,
                                                      spin[<<i, j>>])
                  /\ spin' = [spin EXCEPT ![<<i, j>>] = -@]
             ELSE UNCHANGED << spin, exchangeField >>
    /\ mcSteps' = mcSteps + 1
    /\ UNCHANGED << width, height, mcStepsPerFrame, averagingFrames, loopMode,
                    loopTargetValue, temperature, magneticField, loopIncrement,
                    loopBackward, loopStartValue, frameCounter, dataTable,
                    magnetization, orderParameter, averageMagnetization,
                    averageOrderParameter, averageOrderParamter, pc, looping,
                    terminateCalls, blockLog, rowLog >>

(* update of the variant: both accumulators are added to *)
UpdatePositional ==
    /\ pc = "metropolis"
    /\ ~(mcSteps < mcStepsPerFrame)
    /\ magnetization' = SpinSum(spin)
    /\ orderParameter' = BondSum(spin, exchangeField)
    /\ IF AveragingCompleted
       THEN /\ dataTable' = Append(dataTable,
                   NewRow(Accumulate(averageMagnetization, magnetization'),
                          Accumulate(averageOrderParameter, orderParameter')))
            /\ averageMagnetization' = 0
            /\ averageOrderParameter' = 0
            /\ rowLog' = Append(blockLog, [m |-> SpinSum(spin),
                                           eta |-> BondSum(spin, exchangeField),
                                           temperature |-> temperature,
                                           magneticField |-> magneticField])
            /\ blockLog' = << >>
       ELSE /\ averageMagnetization' = Accumulate(averageMagnetization, magnetization')
            /\ averageOrderParameter' =
                  Accumulate(averageOrderParameter, orderParameter')
            /\ blockLog' = Append(blockLog, [m |-> SpinSum(spin),
                                             eta |-> BondSum(spin, exchangeField),
                                             temperature |-> temperature,
                                             magneticField |-> magneticField])
            /\ UNCHANGED << dataTable, rowLog >>
    /\ pc' = "show"
    /\ trial' = NoTrial
    /\ UNCHANGED << width, height, mcStepsPerFrame, averagingFrames, loopMode,
                    loopTargetValue, temperature, magneticField, loopIncrement,
                    loopBackward, loopStartValue, frameCounter, spin,
                    exchangeField, mcSteps, looping, terminateCalls,
                    averageOrderParamter >>

(* mutant: the tolerance includes its bound *)
NearHalfStepClosed(a, b) == 2 * Abs(a - b) <= Abs(loopIncrement)

(* Math.abs(a - b) < 0.5*Math.abs(this.step) *)
NearHalfStep(a, b) == 2 * Abs(a - b) < Abs(loopIncrement)

exitConditionPositional ==
    CASE loopMode = "TSWEEP" -> NearHalfStep(temperature, loopTargetValue)
      [] loopMode = "HSWEEP" -> NearHalfStep(magneticField, loopTargetValue)
      [] loopMode = "TLOOP"  -> loopBackward /\ NearHalfStep(temperature, loopStartValue)
      [] loopMode = "HLOOP"  -> loopBackward /\ NearHalfStep(magneticField, loopStartValue)
      [] OTHER               -> frameCounter >= loopTargetValue

(* the if statement of case 'TLOOP' / case 'HLOOP' of the variant *)
TurnsAroundPositional(active) == ~loopBackward /\ NearHalfStep(active, loopTargetValue)

incrementPositional ==
    CASE loopMode = "TLOOP" ->
            /\ loopBackward' = (loopBackward \/ TurnsAroundPositional(temperature))
            /\ loopIncrement' =
                  IF TurnsAroundPositional(temperature)
                  THEN -loopIncrement ELSE loopIncrement
            /\ temperature' = temperature + loopIncrement'
            /\ UNCHANGED magneticField
      [] loopMode = "TSWEEP" ->
            /\ temperature' = temperature + loopIncrement
            /\ UNCHANGED << magneticField, loopBackward, loopIncrement >>
      [] loopMode = "HLOOP" ->
            /\ loopBackward' = (loopBackward \/ TurnsAroundPositional(magneticField))
            /\ loopIncrement' =
                  IF TurnsAroundPositional(magneticField)
                  THEN -loopIncrement ELSE loopIncrement
            /\ magneticField' = magneticField + loopIncrement'
            /\ UNCHANGED temperature
      [] loopMode = "HSWEEP" ->
            /\ magneticField' = magneticField + loopIncrement
            /\ UNCHANGED << temperature, loopBackward, loopIncrement >>
      [] OTHER ->
            UNCHANGED << temperature, magneticField, loopBackward, loopIncrement >>

IteratePositional ==
    /\ pc = "iterate"
    /\ IF AveragingCompleted
       THEN IF exitConditionPositional
            THEN /\ terminate
                 /\ UNCHANGED << temperature, magneticField, loopBackward,
                                 loopIncrement >>
            ELSE /\ incrementPositional
                 /\ UNCHANGED << looping, terminateCalls >>
       ELSE UNCHANGED << temperature, magneticField, loopBackward, loopIncrement,
                         looping, terminateCalls >>
    /\ frameCounter' = frameCounter + 1
    /\ pc' = "idle"
    /\ UNCHANGED << width, height, mcStepsPerFrame, averagingFrames, loopMode,
                    loopTargetValue, loopStartValue, dataTable, magnetization,
                    orderParameter, averageMagnetization, averageOrderParameter,
                    averageOrderParamter, spin, exchangeField, mcSteps, trial,
                    blockLog, rowLog >>

NextPositional ==
    SimulationStep \/ MetropolisTrialPositional \/ UpdatePositional \/ Show
        \/ IteratePositional

Spec == Init /\ [][Next]_vars

SpecAveraging == InitAveraging /\ [][Next]_vars

SpecCurve == InitCurve /\ [][Next]_vars

SpecSweepScenario == InitSweepScenario /\ [][Next]_vars

SpecLoopScenario == InitLoopScenario /\ [][Next]_vars

SpecFrameCount == InitFrameCount /\ [][Next]_vars

SpecScheduler == InitScheduler /\ [][Next]_vars

SpecDirectCalls == InitScheduler /\ [][NextDirect]_vars

SpecUnchecked == InitUnchecked /\ [][Next]_vars

SpecFrozen == InitFrozen /\ [][Next]_vars

(* the draw loop of p5 calls draw(), and with it simulationStep, again and *)
(* again while it runs, and every call runs to its end                     *)
SpecCurveFair == InitCurve /\ [][Next]_vars /\ WF_vars(Next)

SpecHalfStepFair == InitHalfStep /\ [][NextPositional]_vars /\ WF_vars(NextPositional)

SpecOptionalMode == InitOptionalMode /\ [][Next]_vars

---------------------------------------------------------------------------
(* Claims about the lattice, the exchange field and the Metropolis trial   *)

(* C1: in every reachable state, for every cell (i,j), exchangeField[i][j] *)
(* is the sum of the four periodic neighbours of (i,j) in the current      *)
(* lattice: spin[(i+1)%W][j] + spin[(i-1+W)%W][j] + spin[i][(j+1)%H] +     *)
(* spin[i][(j-1+H)%H].                                                     *)
C1_ExchangeFieldIsNeighbourSum ==
    \A i \in 0 .. width - 1, j \in 0 .. height - 1 :
        exchangeField[<<i, j>>] =
            spin[<<(i + 1) % width, j>>] + spin[<<(i - 1 + width) % width, j>>]
          + spin[<<i, (j + 1) % height>>] + spin[<<i, (j - 1 + height) % height>>]

(* a second trial has run on a lattice three or more columns wide, and it  *)
(* flipped a spin                                                          *)
C1_Witness == width >= 3 /\ height >= 2 /\ mcSteps = 2 /\ trial.flipped

(* C2: a trial on cell (i,j) with deltaE >= 0 flips the spin whatever the  *)
(* draw; with deltaE < 0 it flips if and only if r < exp(deltaE/T), which  *)
(* for r = exp(-L) and temperature > 0 is L*temperature > -deltaE;         *)
(* otherwise lattice and exchange field are unchanged.                     *)
C2_AcceptanceRule ==
    [][ (pc = "metropolis" /\ mcSteps' = mcSteps + 1 /\ temperature > 0) =>
          LET c  == <<trial'.i, trial'.j>>
              dE == -2 * spin[c] * (exchangeField[c] * Scale + magneticField)
              small == trial'.L * temperature > -dE
          IN  /\ dE >= 0 => spin'[c] = -spin[c]
              /\ dE < 0 => (spin'[c] # spin[c] <=> small)
              /\ (dE < 0 /\ ~small) => (spin' = spin /\ exchangeField' = exchangeField)
      ]_vars

(* the second trial of a step was energy-raising (after the flip the spin  *)
(* is against its local field) and was accepted on the draw r = exp(-4);   *)
(* the first one had left a lattice with spins of both signs               *)
C2_Witness ==
    /\ width >= 2 /\ height >= 2 /\ mcSteps = 2
    /\ trial.flipped /\ trial.L = 4
    /\ spin[<<trial.i, trial.j>>]
          * (exchangeField[<<trial.i, trial.j>>] * Scale + magneticField) < 0

(* The documented Hamiltonian, in units of 1/Scale: one east bond and one  *)
(* north bond per cell of the torus, and the field term.                   *)
Hamiltonian(sp) ==
    - Scale * LatticeSum([c \in DOMAIN sp |->
                            sp[c] * sp[<<(c[1] + 1) % width, c[2]>>]
                          + sp[c] * sp[<<c[1], (c[2] + 1) % height>>]], width)
    - magneticField * LatticeSum(sp, width)

EnergyChangeMatches ==
    \A i \in 0 .. width - 1, j \in 0 .. height - 1 :
        deltaE(i, j) =
            Hamiltonian(spin) - Hamiltonian([spin EXCEPT ![<<i, j>>] = -@])

(* C3, as stated: for every lattice size W >= 1, H >= 1, every cell and    *)
(* every field, the deltaE computed from the cache equals H(S) - H(S').    *)
C3_Original == EnergyChangeMatches

(* C3, amended: on lattices with W >= 2 and H >= 2 the deltaE computed     *)
(* from the cache equals H(S) - H(S') for every cell and every field.      *)
C3_EnergyChange == (width >= 2 /\ height >= 2) => EnergyChangeMatches

(* a 3x2 lattice with spins of both signs in a non-zero field, after a flip *)
C3_Witness ==
    /\ width = 3 /\ height = 2 /\ magneticField # 0 /\ trial.flipped
    /\ \E c, d \in DOMAIN spin : spin[c] # spin[d]

---------------------------------------------------------------------------
(* Claims about block averaging and the recorded samples                   *)

(* the decimal string f denotes exactly the rational n/d *)
Denotes(f, n, d) ==
    /\ f.neg = (n < 0)
    /\ f.exp <= FractionDigits
    /\ f.mant * d = Abs(n) * Pow10(FractionDigits - f.exp)

LastRow == dataTable[Len(dataTable)]

(* per-step magnetizations and order parameters of the block of the last row *)
RowMagnetizations == [k \in 1 .. Len(rowLog) |-> rowLog[k].m]
RowOrderParameters == [k \in 1 .. Len(rowLog) |-> rowLog[k].eta]

(* C4: with averagingFrames = B, after n completed calls of simulationStep *)
(* the table holds floor(n/B) rows; a row is added on exactly the steps    *)
(* whose index is a multiple of B, one at a time; and right after a row is *)
(* added both block accumulators are zero.                                 *)
C4_BlockCadence ==
    /\ [](pc = "idle" => Len(dataTable) = (frameCounter - 1) \div averagingFrames)
    /\ [][ /\ Len(dataTable') # Len(dataTable) =>
                /\ Len(dataTable') = Len(dataTable) + 1
                /\ frameCounter % averagingFrames = 0
                /\ averageMagnetization' = 0
                /\ averageOrderParameter' = 0
           /\ (pc = "metropolis" /\ pc' = "show"
                 /\ frameCounter % averagingFrames = 0) =>
                Len(dataTable') = Len(dataTable) + 1
         ]_vars

(* five calls with blocks of three steps have completed: one row, and the  *)
(* second block is under way                                               *)
C4_Witness ==
    /\ averagingFrames = 3 /\ pc = "idle" /\ frameCounter = 6
    /\ Len(dataTable) = 1 /\ averageMagnetization # 0

(* C5, as stated: the magnetization of every recorded sample equals the    *)
(* sum over the B steps of its block of (the step's magnetization)/B.      *)
C5_Original ==
    Len(dataTable) > 0 =>
        /\ Len(rowLog) = averagingFrames
        /\ Denotes(LastRow.magnetization, SumSeq(RowMagnetizations),
                   width * height * averagingFrames)

(* C5, amended: the magnetization of every recorded sample is the sum over *)
(* the B steps of its block of (the step's magnetization)/B, written with  *)
(* seven significant digits (toExponential(6)).                            *)
C5_RecordedMagnetization ==
    Len(dataTable) > 0 =>
        /\ Len(rowLog) = averagingFrames
        /\ LastRow.magnetization =
              toExponential(SumSeq(RowMagnetizations),
                            width * height * averagingFrames)

(* a block of three steps whose magnetizations are not all equal has been  *)
(* recorded, with average 1/3                                              *)
C5_Witness ==
    /\ averagingFrames = 3 /\ width = 1 /\ Len(dataTable) > 0
    /\ SumSeq(RowMagnetizations) = 1

(* C6: the order parameter of every recorded sample is the sum over the B  *)
(* steps of its block of (the step's order parameter)/B, the step's order  *)
(* parameter being the sum of exchangeField[i][j]*spin[i][j] over all      *)
(* cells divided by 4*W*H (compared as the seven-digit string recorded).   *)
C6_RecordedOrderParameter ==
    Len(dataTable) > 0 =>
        LastRow.orderParameter =
            toExponential(SumSeq(RowOrderParameters),
                          4 * width * height * averagingFrames)

---------------------------------------------------------------------------
(* Claims about the parameter curves                                       *)

(* the parameter the curve drives *)
Active == IF loopMode \in {"TSWEEP", "TLOOP"} THEN temperature ELSE magneticField
ActiveNext == IF loopMode \in {"TSWEEP", "TLOOP"} THEN temperature' ELSE magneticField'

(* |a - b| < 1E-6, for a and b in units of 1/Scale *)
Within(a, b) == (IF a < b THEN b - a ELSE a - b) * EpsilonInverse < Scale

BlockBoundary == frameCounter % averagingFrames = 0

Terminates == terminateCalls' = terminateCalls + 1 /\ looping /\ ~looping'

(* C7: in TSWEEP and HSWEEP the run terminates at a step exactly when the  *)
(* step is a block boundary with |active - loopTargetValue| < epsilon (so  *)
(* at the first such boundary and at no earlier step); at every block      *)
(* boundary before it the active parameter grows by exactly loopIncrement, *)
(* and nothing else changes it.                                            *)
C7_SweepTermination ==
    [][ (loopMode \in {"TSWEEP", "HSWEEP"}) =>
          /\ pc = "iterate" =>
                /\ Terminates <=> (BlockBoundary /\ Within(Active, loopTargetValue))
                /\ ~Terminates => (looping' = looping /\ terminateCalls' = terminateCalls)
                /\ (BlockBoundary /\ ~Within(Active, loopTargetValue)) =>
                      ActiveNext = Active + loopIncrement
                /\ ~(BlockBoundary /\ ~Within(Active, loopTargetValue)) =>
                      ActiveNext = Active
          /\ pc # "iterate" =>
                /\ terminateCalls' = terminateCalls
                /\ looping' = looping
                /\ ActiveNext = Active
      ]_vars

(* a sweep has terminated after at least one increment *)
C7_Witness ==
    /\ loopMode \in {"TSWEEP", "HSWEEP"} /\ ~looping
    /\ Active # loopStartValue /\ Len(dataTable) >= 2

(* C8: in TLOOP and HLOOP the run terminates only at a block boundary      *)
(* where the direction is BACKWARD and |active - loopStartValue| < epsilon;*)
(* it does not terminate at the first block boundary.                      *)
C8_LoopTermination ==
    [][ (loopMode \in {"TLOOP", "HLOOP"} /\ terminateCalls' # terminateCalls) =>
          /\ pc = "iterate"
          /\ BlockBoundary
          /\ loopBackward
          /\ Within(Active, loopStartValue)
          /\ frameCounter # averagingFrames
      ]_vars

(* a loop went to its target and back and has terminated *)
C8_Witness ==
    /\ loopMode \in {"TLOOP", "HLOOP"} /\ ~looping
    /\ loopStartValue # loopTargetValue /\ Len(dataTable) >= 3

(* the turnaround: a LOOP mode, a block boundary, FORWARD, active at target *)
Turnaround ==
    /\ loopMode \in {"TLOOP", "HLOOP"}
    /\ pc = "iterate"
    /\ BlockBoundary
    /\ ~loopBackward
    /\ Within(Active, loopTargetValue)

(* the rows recorded with the active parameter at the target value *)
TargetRows(table) ==
    { k \in 1 .. Len(table) :
        (IF loopMode = "TLOOP" THEN table[k].temperature ELSE table[k].magneticField)
            = toExponential(loopTargetValue, Scale) }

TurnaroundEffect ==
    /\ loopBackward'
    /\ loopIncrement' = -loopIncrement
    /\ ActiveNext = Active - loopIncrement
    /\ terminateCalls' = terminateCalls

(* C9, as stated: at the turnaround one call of increment sets the         *)
(* direction to BACKWARD, negates loopIncrement and adds the negated       *)
(* increment to the active parameter; so the target value is in force for  *)
(* exactly one block and the next block runs one step off the target.      *)
C9_Original ==
    [][ Turnaround =>
          /\ TurnaroundEffect
          /\ Cardinality(TargetRows(dataTable)) = 1
          /\ ~Within(ActiveNext, loopTargetValue)
      ]_vars

(* C9, amended: at the turnaround one call of increment sets the direction *)
(* to BACKWARD, negates loopIncrement and adds the negated increment to    *)
(* the active parameter; when |loopIncrement| >= 2*epsilon the target      *)
(* value is in force for exactly one block and the next block runs one     *)
(* step off the target.                                                    *)
C9_Turnaround ==
    [][ Turnaround =>
          /\ TurnaroundEffect
          /\ Abs(loopIncrement) * EpsilonInverse >= 2 * Scale =>
                /\ Cardinality(TargetRows(dataTable)) = 1
                /\ ~Within(ActiveNext, loopTargetValue)
      ]_vars

(* a loop with a non-zero increment has turned around away from its start  *)
(* and runs the block after the target block                               *)
C9_Witness ==
    /\ loopMode \in {"TLOOP", "HLOOP"} /\ loopBackward /\ looping
    /\ loopStartValue # loopTargetValue /\ loopIncrement # 0
    /\ Active = loopTargetValue + loopIncrement
    /\ pc = "metropolis"

(* C10, as stated: 10x10, temperature 1.0, target 0.5, increment -0.1,     *)
(* blocks of 5 steps, TSWEEP: termination is reported after exactly 5      *)
(* completed blocks with the temperature within epsilon of 0.5, and no 6th *)
(* sample is emitted.                                                      *)
C10_Original ==
    /\ Len(dataTable) <= 5
    /\ terminateCalls > 0 =>
          /\ Len(dataTable) = 5
          /\ frameCounter - 1 = 5 * averagingFrames
          /\ Within(temperature, loopTargetValue)

(* C10, amended: in that scenario termination is reported after exactly 6  *)
(* completed blocks (samples at 1.0, 0.9, 0.8, 0.7, 0.6, 0.5) with the     *)
(* temperature within epsilon of 0.5, and no 7th sample is emitted.        *)
C10_SweepScenario ==
    /\ Len(dataTable) <= 6
    /\ terminateCalls > 0 =>
          /\ Len(dataTable) = 6
          /\ frameCounter - 1 = 6 * averagingFrames
          /\ Within(temperature, loopTargetValue)
    /\ (Len(dataTable) = 6 /\ pc = "idle") => (terminateCalls = 1 /\ ~looping)
    /\ \A k \in 1 .. Len(dataTable) :
          dataTable[k].temperature = toExponential(Scale - (k - 1) * (Scale \div 10), Scale)

(* the scenario has terminated *)
C10_Witness ==
    /\ width = 10 /\ height = 10 /\ averagingFrames = 5
    /\ terminateCalls = 1 /\ ~looping /\ pc = "idle"

(* the temperatures of the loop scenario, block by block, in 1/Scale *)
LoopScenarioTemperatures ==
    << 2 * Scale, 2 * Scale + Scale \div 2, 3 * Scale,
       2 * Scale + Scale \div 2, 2 * Scale >>

(* C11: TLOOP from temperature 2.0 to target 3.0 by +0.5: the direction    *)
(* changes from FORWARD to BACKWARD exactly once, at the block boundary    *)
(* where the temperature is 3.0 (the third), and the increment is -0.5     *)
(* from then on; the run terminates only at a block boundary with the      *)
(* temperature back at 2.0 and the direction BACKWARD; the samples are     *)
(* recorded at 2.0, 2.5, 3.0, 2.5, 2.0 and there is no sixth.              *)
C11_LoopScenario ==
    /\ [] /\ Len(dataTable) <= 5
          /\ \A k \in 1 .. Len(dataTable) :
                dataTable[k].temperature =
                    toExponential(LoopScenarioTemperatures[k], Scale)
          /\ loopIncrement = (IF loopBackward THEN -(Scale \div 2) ELSE Scale \div 2)
          /\ loopBackward => Len(dataTable) >= 3
          /\ terminateCalls > 0 =>
                /\ terminateCalls = 1 /\ Len(dataTable) = 5
                /\ loopBackward /\ temperature = 2 * Scale
    /\ [][ /\ loopBackward' # loopBackward =>
                /\ ~loopBackward /\ pc = "iterate" /\ BlockBoundary
                /\ temperature = 3 * Scale /\ Len(dataTable) = 3
                /\ temperature' = 2 * Scale + Scale \div 2
          /\ terminateCalls' # terminateCalls =>
                /\ pc = "iterate" /\ BlockBoundary /\ loopBackward
                /\ temperature = 2 * Scale
       ]_vars

(* the loop scenario has gone to 3.0 and back and has terminated *)
C11_Witness ==
    /\ loopMode = "TLOOP" /\ loopStartValue = 2 * Scale
    /\ loopTargetValue = 3 * Scale /\ loopBackward
    /\ terminateCalls = 1 /\ ~looping /\ Len(dataTable) = 5

---------------------------------------------------------------------------
(* Claims about the settings                                               *)

(* C12: constructing Ising with loopMode null completes without an error   *)
(* (and the simulation then runs without a curve).                         *)
C12_NullModeConstructs == loopMode = Null => pc # "TypeError"

---------------------------------------------------------------------------
(* Claims about runs without a curve, and about what a step may change     *)

(* C13: without a curve the run terminates at a step exactly when the step *)
(* is a block boundary (frameCounter a multiple of averagingFrames) with   *)
(* frameCounter >= loopTargetValue; so it terminates at the smallest step  *)
(* index that is a multiple of averagingFrames and >= loopTargetValue, and *)
(* at no step before it.                                                   *)
C13_FrameCountTermination ==
    [][ (loopMode \notin Modes) =>
          /\ Terminates <=>
                (pc = "iterate" /\ BlockBoundary /\ frameCounter >= loopTargetValue)
          /\ ~Terminates => (looping' = looping /\ terminateCalls' = terminateCalls)
          /\ Terminates =>
                \A k \in 1 .. frameCounter - 1 :
                    k % averagingFrames = 0 => k < loopTargetValue
      ]_vars

(* a run without a curve has terminated at step 4, the first multiple of   *)
(* its block length 2 from the target 3 on                                 *)
C13_Witness ==
    /\ loopMode = "NONE" /\ averagingFrames = 2 /\ loopTargetValue = 3
    /\ ~looping /\ terminateCalls = 1 /\ frameCounter = 5 /\ Len(dataTable) = 2

(* C14: no step changes the inactive parameter: with a temperature curve  *)
(* (TSWEEP, TLOOP) the magnetic field keeps its value, with a field curve  *)
(* (HSWEEP, HLOOP) the temperature keeps its value, and without a curve    *)
(* both keep their values.                                                 *)
C14_InactiveParameterFixed ==
    [][ /\ (loopMode \in {"TSWEEP", "TLOOP"}) => magneticField' = magneticField
        /\ (loopMode \in {"HSWEEP", "HLOOP"}) => temperature' = temperature
        /\ (loopMode \notin Modes) =>
              (temperature' = temperature /\ magneticField' = magneticField)
      ]_vars

(* a field loop has advanced the field, turned around and come back to an  *)
(* end of its curve                                                        *)
C14_Witness ==
    /\ loopMode = "HLOOP" /\ loopBackward /\ loopIncrement # 0
    /\ loopStartValue # loopTargetValue /\ ~looping /\ Len(dataTable) >= 3

(* C15: temperature, magneticField, loopBackward and loopIncrement change  *)
(* only in the iterate part of a step at a block boundary; every other     *)
(* part of every step (the trials, update, show, iterate inside a block)   *)
(* leaves all four as they are.                                            *)
C15_ChangesOnlyAtBlockBoundary ==
    [][ ~(pc = "iterate" /\ BlockBoundary) =>
          UNCHANGED << temperature, magneticField, loopBackward, loopIncrement >>
      ]_vars

(* a temperature loop with blocks of two steps has turned around at the    *)
(* end of a block and is inside the next block                             *)
C15_Witness ==
    /\ loopMode = "TLOOP" /\ averagingFrames = 2 /\ loopBackward
    /\ temperature # loopStartValue /\ frameCounter % averagingFrames = 1
    /\ pc = "iterate"

---------------------------------------------------------------------------
(* Claims about termination                                                *)

(* C16, as stated: once terminate has been invoked, no later call of       *)
(* simulationStep runs a Metropolis trial, records a sample or invokes     *)
(* terminate again; terminate is invoked at most once.                     *)
C16_Original ==
    /\ [] (terminateCalls <= 1)
    /\ [][ terminateCalls > 0 =>
              UNCHANGED << trial, spin, exchangeField, dataTable, terminateCalls >>
       ]_vars

(* C16, amended: terminate stops the draw loop with noLoop(), for good;    *)
(* the first invocation of terminate ends its step, and from then on       *)
(* nothing runs unless the host calls simulationStep itself, outside the   *)
(* draw loop (such a call runs a whole step again).                        *)
C16_DrawLoopStopped ==
    /\ [] (terminateCalls > 0 => ~looping)
    /\ [][ /\ (terminateCalls = 0 /\ terminateCalls' # 0) =>
                (terminateCalls' = 1 /\ pc' = "idle" /\ ~looping')
           /\ (terminateCalls > 0 /\ pc = "idle") => DirectCall
       ]_vars

(* a run has terminated after two blocks and its last step has returned *)
C16_Witness ==
    /\ terminateCalls = 1 /\ ~looping /\ pc = "idle" /\ Len(dataTable) >= 2

---------------------------------------------------------------------------
(* Claims about the temperature and the settings                           *)

(* C17: whenever the trials of a step run, the temperature is strictly     *)
(* positive (a curve that would take it to zero or below has been clamped  *)
(* or stopped before).                                                     *)
C17_TemperaturePositive == pc = "metropolis" => temperature > 0

(* the temperature the settings object came with *)
TemperatureGiven ==
    IF loopMode \in {"TSWEEP", "TLOOP"} THEN loopStartValue ELSE temperature

(* C18: with a non-positive temperature or a loopMode string that is none  *)
(* of the four curves in the settings, the constructor rejects the         *)
(* settings: no step starts, no trial runs and no sample is recorded.      *)
C18_InvalidSettingsRejected ==
    (loopMode \notin Modes \/ TemperatureGiven <= 0) =>
        /\ pc = "TypeError"
        /\ trial = NoTrial
        /\ Len(dataTable) = 0

---------------------------------------------------------------------------
(* Claims about whole runs                                                 *)

(* C19: from the lattice with all spins +1, with no field and a            *)
(* temperature at or near 0 (no draw accepts an energy-raising flip),      *)
(* after every trial all spins are +1 and every exchangeField entry is 4,  *)
(* and every magnetization computed by update is 1 (the sum W*H).          *)
C19_FrozenFerromagnet ==
    /\ \A c \in DOMAIN spin : spin[c] = 1 /\ exchangeField[c] = 4
    /\ ~trial.flipped
    /\ (frameCounter > 1 \/ pc \in {"show", "iterate"}) =>
          magnetization = width * height
    /\ \A k \in 1 .. Len(dataTable) :
          Denotes(dataTable[k].magnetization, 1, 1)

(* two steps into the run on a lattice of at least four cells at           *)
(* temperature 0.1, a trial of the second step has been turned down        *)
C19_Witness ==
    /\ temperature = Scale \div 10 /\ magneticField = 0
    /\ width * height >= 4 /\ frameCounter = 2 /\ Len(dataTable) = 1
    /\ pc = "metropolis" /\ mcSteps >= 2 /\ trial.i >= 0 /\ ~trial.flipped

---------------------------------------------------------------------------
(* Claims about curves that stall, and about the value ranges              *)

(* C21: a sweep or loop with loopIncrement = 0 and a target different from *)
(* the start value never terminates: in every reachable state the active   *)
(* parameter is at its start value, the draw loop runs and terminate has   *)
(* not been invoked, however many blocks have been completed.              *)
C21_ZeroIncrementRunsOn ==
    (loopMode \in Modes /\ loopIncrement = 0 /\ ~Within(loopStartValue, loopTargetValue)) =>
        /\ Active = loopStartValue
        /\ terminateCalls = 0
        /\ looping

(* a curve with increment zero has completed MaxRows - 1 blocks and runs   *)
(* the next one                                                            *)
C21_Witness ==
    /\ loopMode \in Modes /\ loopIncrement = 0 /\ loopStartValue # loopTargetValue
    /\ Len(dataTable) >= MaxRows - 1 /\ pc = "metropolis"

(* C22: in every reachable state every lattice cell holds -1 or +1.        *)
C22_SpinValues == \A c \in DOMAIN spin : spin[c] \in {-1, 1}

(* a randomized lattice with cells of both signs, after an accepted flip *)
C22_Witness ==
    /\ trial.flipped /\ mcSteps = 2
    /\ \E c, d \in DOMAIN spin : spin[c] = -1 /\ spin[d] = 1

(* C23: in every reachable state every exchangeField entry is one of -4,   *)
(* -2, 0, 2, 4, on every lattice shape with width >= 1 and height >= 1.    *)
C23_ExchangeFieldValues ==
    \A c \in DOMAIN exchangeField : exchangeField[c] \in {-4, -2, 0, 2, 4}

(* on a lattice one cell wide, a flip has left entries of 0 or +-2 *)
C23_Witness ==
    /\ trial.flipped /\ (width = 1 \/ height = 1) /\ width * height >= 3
    /\ \E c, d \in DOMAIN exchangeField :
          exchangeField[c] = 0 /\ exchangeField[d] \in {-2, 2}

(* C24: after every simulation step the magnetization readout, the sum of  *)
(* all spins, lies in [-W*H, W*H] (magnetization in [-1, 1]) and the       *)
(* order-parameter readout, the sum of exchangeField[i][j]*spin[i][j],     *)
(* lies in [-4*W*H, 4*W*H] (order parameter in [-1, 1]).                   *)
C24_ReadoutRanges ==
    /\ -(width * height) <= magnetization /\ magnetization <= width * height
    /\ -(4 * width * height) <= orderParameter
    /\ orderParameter <= 4 * width * height
    /\ pc \in {"show", "iterate"} =>
          (magnetization = SpinSum(spin) /\ orderParameter = BondSum(spin, exchangeField))

(* a step has computed a negative order parameter next to a magnetization  *)
(* strictly inside the range                                               *)
C24_Witness ==
    /\ pc = "show" /\ orderParameter < 0
    /\ magnetization # 0 /\ Abs(magnetization) < width * height

---------------------------------------------------------------------------
(* Claims about what a trial and a block leave alone                       *)

(* how many of the four periodic neighbours of (i,j) the cell d is *)
Occurrences(d, i, j) ==
    (IF d = <<right(i), j>> THEN 1 ELSE 0) + (IF d = <<left(i), j>> THEN 1 ELSE 0)
      + (IF d = <<i, above(j)>> THEN 1 ELSE 0) + (IF d = <<i, below(j)>> THEN 1 ELSE 0)

(* C25: a Metropolis trial on the cell (i,j) changes no lattice cell other *)
(* than (i,j); when the flip is accepted the cell is negated and every     *)
(* exchangeField entry grows by 2 times the new spin for each time its     *)
(* cell is one of the four periodic neighbours of (i,j), and by nothing    *)
(* otherwise; when the flip is rejected lattice and exchange field are     *)
(* unchanged; temperature, magneticField and frameCounter are unchanged by *)
(* every trial.                                                            *)
C25_TrialFrame ==
    [][ (mcSteps' = mcSteps + 1) =>
          LET i == trial'.i
              j == trial'.j
          IN  /\ \A d \in DOMAIN spin : d # <<i, j>> => spin'[d] = spin[d]
              /\ trial'.flipped <=> spin' # spin
              /\ trial'.flipped =>
                    /\ spin'[<<i, j>>] = -spin[<<i, j>>]
                    /\ \A d \in DOMAIN exchangeField :
                          exchangeField'[d] = exchangeField[d]
                              + 2 * spin'[<<i, j>>] * Occurrences(d, i, j)
              /\ ~trial'.flipped => exchangeField' = exchangeField
              /\ UNCHANGED << temperature, magneticField, frameCounter >>
      ]_vars

(* an accepted flip on a lattice at least three cells wide, where the cell *)
(* of the trial is not among its own neighbours                            *)
C25_Witness ==
    /\ trial.flipped /\ width >= 3 /\ height >= 2
    /\ spin[<<trial.i, trial.j>>] = -1

(* C26: every recorded sample carries the temperature and the field that   *)
(* were in force in all averagingFrames steps of its block: the steps of   *)
(* the block of the last row all ran at one temperature and one field,     *)
(* the row holds these two values, and the row is written (update) before  *)
(* the parameter is advanced (iterate) in the last step of the block.      *)
C26_SampleParameters ==
    /\ [] (Len(dataTable) > 0 =>
              /\ Len(rowLog) = averagingFrames
              /\ \A k \in 1 .. Len(rowLog) :
                    /\ LastRow.temperature = toExponential(rowLog[k].temperature, Scale)
                    /\ LastRow.magneticField = toExponential(rowLog[k].magneticField, Scale)
                    /\ rowLog[k].temperature = rowLog[1].temperature
                    /\ rowLog[k].magneticField = rowLog[1].magneticField)
    /\ [] (\A k \in 1 .. Len(blockLog) :
              /\ blockLog[k].temperature = temperature
              /\ blockLog[k].magneticField = magneticField)
    /\ [][ (Len(dataTable') > Len(dataTable)) =>
              /\ pc = "metropolis" /\ pc' = "show"
              /\ UNCHANGED << temperature, magneticField >>
       ]_vars

(* a temperature curve with blocks of two steps has recorded two samples   *)
(* at different temperatures                                               *)
C26_Witness ==
    /\ loopMode \in {"TSWEEP", "TLOOP"} /\ averagingFrames = 2
    /\ Len(dataTable) >= 2 /\ Len(rowLog) = 2
    /\ LastRow.temperature # dataTable[1].temperature

---------------------------------------------------------------------------
(* Claims about the length of a curve                                      *)

(* the increment the settings came with *)
IncrementGiven == IF loopBackward THEN -loopIncrement ELSE loopIncrement

(* the target is exactly k increments away from the start value *)
StepsAway(k) ==
    /\ loopMode \in Modes
    /\ IncrementGiven # 0
    /\ loopTargetValue = loopStartValue + k * IncrementGiven

(* the run has stopped after exactly n completed blocks *)
StopsAfter(n) ==
    /\ Len(dataTable) <= n
    /\ terminateCalls > 0 =>
          (Len(dataTable) = n /\ frameCounter - 1 = n * averagingFrames)
    /\ (Len(dataTable) = n /\ pc = "idle") => (terminateCalls = 1 /\ ~looping)

(* C27: with the target exactly k >= 1 non-zero increments away from the   *)
(* start value, a sweep terminates after exactly k+1 completed blocks with *)
(* the active parameter at the target, a loop after exactly 2k+1 completed *)
(* blocks with the active parameter back at its start value; the step that *)
(* terminates does not change the active parameter; and under a draw loop  *)
(* that keeps calling simulationStep the run does terminate.               *)
C27_CurveLength ==
    /\ [] (\A k \in 1 .. MaxRows :
              StepsAway(k) =>
                  IF loopMode \in {"TSWEEP", "HSWEEP"}
                  THEN /\ StopsAfter(k + 1)
                       /\ terminateCalls > 0 => Active = loopTargetValue
                  ELSE /\ StopsAfter(2 * k + 1)
                       /\ terminateCalls > 0 =>
                             (Active = loopStartValue /\ loopBackward))
    /\ [][ Terminates => ActiveNext = Active ]_vars
    /\ ((\E k \in 1 .. MaxRows : StepsAway(k)) ~> (terminateCalls > 0))

(* a loop two increments long has terminated after five blocks *)
C27_Witness ==
    /\ loopMode \in {"TLOOP", "HLOOP"} /\ StepsAway(2)
    /\ terminateCalls = 1 /\ Len(dataTable) = 5 /\ Active = loopStartValue

(* a loop that goes BACKWARD beyond its start value: every later block     *)
(* takes the active parameter one increment further from the start value   *)
RunsAway ==
    /\ loopMode \in {"TLOOP", "HLOOP"}
    /\ loopBackward /\ looping
    /\ (Active - loopStartValue) * loopIncrement > 0

(* C28: a loop whose target is the start value of its active parameter (a *)
(* loop of length zero), with a non-zero increment, eventually terminates, *)
(* with the active parameter at its start value; so it is never BACKWARD   *)
(* beyond its start value, from where it cannot come back.                 *)
C28_ZeroLengthLoop ==
    /\ [] ((loopTargetValue = loopStartValue /\ loopIncrement # 0) => ~RunsAway)
    /\ ((loopMode \in {"TLOOP", "HLOOP"} /\ loopTargetValue = loopStartValue
            /\ loopIncrement # 0)
          ~> (terminateCalls > 0 /\ Active = loopStartValue))

(* a sweep whose step points from the start value toward the final value *)
SweepTowardTarget ==
    /\ loopMode \in {"TSWEEP", "HSWEEP"}
    /\ (loopTargetValue - loopStartValue) * loopIncrement > 0

(* the final value lies exactly half way between two values of the sweep *)
HalfWay ==
    /\ loopIncrement # 0
    /\ (2 * Abs(loopTargetValue - loopStartValue)) % Abs(loopIncrement) = 0
    /\ ((2 * Abs(loopTargetValue - loopStartValue)) \div Abs(loopIncrement)) % 2 = 1

(* a sweep that runs on at half a step or more beyond its final value:     *)
(* every later block takes it one step further from the final value        *)
PastTarget ==
    /\ loopMode \in {"TSWEEP", "HSWEEP"}
    /\ looping
    /\ (Active - loopTargetValue) * loopIncrement > 0
    /\ 2 * Abs(Active - loopTargetValue) >= Abs(loopIncrement)

(* C29, as stated: in the variant with the tolerance 0.5*|step| a sweep    *)
(* with a non-zero step pointing from the start value toward finalValue    *)
(* eventually terminates, for every finalValue, and then                   *)
(* |active - finalValue| < 0.5*|step|; so it never runs on at half a step  *)
(* or more beyond finalValue, from where it cannot terminate.              *)
C29_Original ==
    /\ [] (SweepTowardTarget => ~PastTarget)
    /\ (SweepTowardTarget ~>
          (terminateCalls > 0 /\ 2 * Abs(Active - loopTargetValue) < Abs(loopIncrement)))

(* C29, amended: in that variant such a sweep eventually terminates for    *)
(* every finalValue that is not exactly an odd number of half steps from   *)
(* the start value, and whenever a sweep terminates                        *)
(* |active - finalValue| < 0.5*|step|; with finalValue exactly half way    *)
(* between two values of the sweep it never terminates.                    *)
C29_HalfStepSweep ==
    /\ ((SweepTowardTarget /\ ~HalfWay) ~> (terminateCalls > 0))
    /\ [] ((loopMode \in {"TSWEEP", "HSWEEP"} /\ terminateCalls > 0) =>
              2 * Abs(Active - loopTargetValue) < Abs(loopIncrement))
    /\ [] ((SweepTowardTarget /\ HalfWay) => terminateCalls = 0)

(* a sweep has terminated one step from its start, short of a final value  *)
(* that is no whole number of steps away                                   *)
C29_Witness ==
    /\ SweepTowardTarget /\ terminateCalls = 1
    /\ Active = loopStartValue + loopIncrement
    /\ Active # loopTargetValue

---------------------------------------------------------------------------
(* Claims about the direction of a loop                                    *)

(* C30: in TLOOP and HLOOP the direction flag changes only from FORWARD to *)
(* BACKWARD (so at most once in a run, and never back); loopIncrement      *)
(* changes only in the step that changes the flag, to its negative, so its *)
(* sign changes at most once and its magnitude never; in TSWEEP, HSWEEP    *)
(* and without a curve the flag stays FORWARD and loopIncrement is never   *)
(* changed.                                                                *)
C30_DirectionChangesOnce ==
    /\ [] ((loopMode \notin {"TLOOP", "HLOOP"}) => ~loopBackward)
    /\ [][ /\ loopBackward => loopBackward'
           /\ (loopBackward' # loopBackward) =>
                 (loopMode \in {"TLOOP", "HLOOP"} /\ loopIncrement' = -loopIncrement)
           /\ (loopIncrement' # loopIncrement) =>
                 (~loopBackward /\ loopBackward' /\ loopIncrement' = -loopIncrement)
           /\ (loopMode \notin {"TLOOP", "HLOOP"}) => loopIncrement' = loopIncrement
       ]_vars

(* a loop has turned around and gone on for two more blocks *)
C30_Witness ==
    /\ loopMode \in {"TLOOP", "HLOOP"} /\ loopBackward /\ loopIncrement # 0
    /\ Active = loopTargetValue + 2 * loopIncrement /\ pc = "metropolis"

---------------------------------------------------------------------------
(* Claims about the two variants of the stepper, and about the counter     *)

(* C31: the two Metropolis steppers are equivalent: from every reachable   *)
(* lattice and exchange field, with the same field, temperature and draws  *)
(* (cell and acceptance draw), the trial of the settings-object variant    *)
(* (flip, then += 2*newSpin on the four neighbours) and the trial of the   *)
(* positional-argument variant (-= 2*oldSpin on the four neighbours, then  *)
(* flip) end in the same lattice and the same exchange field.              *)
C31_SteppersEquivalent ==
    /\ [] (\A c \in DOMAIN spin :
              UpdateExchangeField(exchangeField, c[1], c[2], -spin[c])
                = UpdateExchangeFieldPositional(exchangeField, c[1], c[2], spin[c]))
    /\ [][ (mcSteps' = mcSteps + 1) =>
              (MetropolisTrial /\ MetropolisTrialPositional) ]_vars

(* the second trial of a step has flipped a +1 cell of a 2x2 lattice *)
C31_Witness ==
    /\ trial.flipped /\ width = 2 /\ height = 2 /\ mcSteps = 2
    /\ spin[<<trial.i, trial.j>>] = -1
    /\ \E c \in DOMAIN spin : spin[c] = 1

(* the steps that have run update: averagingFrames for every row, and the  *)
(* steps of the block in progress                                          *)
StepsObserved == Len(dataTable) * averagingFrames + Len(blockLog)

(* C32: frameCounter starts at 1 and is increased by exactly 1 by every    *)
(* call of simulationStep (at its end, in iterate), also by the call that  *)
(* invokes terminate; nothing else changes it, so it is never decreased or *)
(* reset: between two calls it is 1 plus the number of calls made, and the *)
(* first block completes, with the first row, in step averagingFrames.     *)
C32_FrameCounter ==
    /\ [] /\ frameCounter >= 1
          /\ pc \in {"idle", "metropolis"} => frameCounter = 1 + StepsObserved
          /\ pc \in {"show", "iterate"} => frameCounter = StepsObserved
          /\ Len(dataTable) = 0 =>
                (frameCounter <= averagingFrames + 1 /\ Len(rowLog) = 0)
    /\ [][ /\ (pc = "iterate") => frameCounter' = frameCounter + 1
           /\ (pc # "iterate") => frameCounter' = frameCounter
           /\ Terminates => frameCounter' = frameCounter + 1
           /\ (Len(dataTable) = 0 /\ Len(dataTable') = 1) =>
                 frameCounter = averagingFrames
       ]_vars

(* a run with blocks of two steps has terminated in its fourth step, or a  *)
(* later one, and the counter has counted that step                        *)
C32_Witness ==
    /\ averagingFrames = 2 /\ terminateCalls = 1 /\ ~looping /\ pc = "idle"
    /\ frameCounter >= 5 /\ frameCounter = 1 + StepsObserved

=============================================================================
